---- MODULE Spec2Model ----
\* A model of the static site generator of src/index.js: one run of build()
\* (mkdir, reset of the public directory, scan and parse of the posts
\* directory, the parallel createPostFile calls, the index page) and the
\* command-line entry point that reports its outcome.
\*
\* File names are sequences of characters; the stem of a name is kept as one
\* token ("index", "notes") and its extension is spelled character by
\* character, since the code only ever inspects and rewrites the extension.
EXTENDS Integers, Sequences, FiniteSets, TLC

VARIABLES
    srcDir,      \* posts directory: the dirents in the order readdir yields them
    pubExists,   \* whether the public directory exists
    pub,         \* public directory: name -> [isFile, data]
    pc,          \* where build() is suspended, or how it settled
    toUnlink,    \* fs.unlink calls of removeFiles still in flight
    fileNames,   \* getPosts: the Markdown file names found
    unread,      \* getPosts: indexes of fileNames whose readFile is in flight
    jobs,        \* the createPostFile calls of postsToCreate, in order
    indexCalled, \* createIndexFile has been called
    indexArg,    \* the list createIndexFile was called with
    cli,         \* what the entry point printed: "pending" (nothing yet),
                 \* "logged" (the success count) or the error build rejected
                 \* with, named by the call that raised it
    exitCode,    \* exit status of the process: <<>> while it runs, <<code>> after
    written,     \* history: names written by fs.writeFile in this run
    lateWrite,   \* history: a post file was written after the error was printed
    src0,        \* history: the posts directory when this run started
    pub0,        \* history: the public directory when this run started
    run,         \* number of the current run
    firstOut,    \* history: the public directory when the first run ended
    firstOk      \* history: the first run resolved

vars == <<srcDir, pubExists, pub, pc, toUnlink, fileNames, unread, jobs,
          indexCalled, indexArg, cli, exitCode, written, lateWrite, src0,
          pub0, run, firstOut, firstOk>>

\* ---------------------------------------------------------------- bounds

\* Largest number of Markdown files in the posts directory.
MaxPosts == 3

\* ---------------------------------------------------------------- strings

\* String.prototype.toLowerCase on one character (or stem token).
LowerChar(c) ==
    CASE c = "M" -> "m"
      [] c = "D" -> "d"
      [] c = "H" -> "h"
      [] c = "T" -> "t"
      [] c = "L" -> "l"
      [] c = "OLD" -> "old"
      [] OTHER -> c

toLowerCase(s) == [i \in 1..Len(s) |-> LowerChar(s[i])]

endsWith(s, suffix) ==
    /\ Len(suffix) <= Len(s)
    /\ SubSeq(s, Len(s) - Len(suffix) + 1, Len(s)) = suffix

ExtMd == <<".", "m", "d">>
ExtHtml == <<".", "h", "t", "m", "l">>

\* path.basename(p, ext) for a name without directory separators: the
\* suffix is removed only when it matches exactly (case-sensitively), and a
\* name equal to the suffix yields the empty string.
basename(p, ext) ==
    IF ext = p THEN <<>>
    ELSE IF endsWith(p, ext) THEN SubSeq(p, 1, Len(p) - Len(ext))
    ELSE p

\* path.format({ name, ext }).
pathFormat(name, ext) == name \o ext

IndexHtml == pathFormat(<<"index">>, ExtHtml)

\* ---------------------------------------------------------------- numbers

NaN == [nan |-> TRUE, t |-> 0]
Num(n) == [nan |-> FALSE, t |-> n]

\* new Date(value): the time value of a date string, NaN (Invalid Date) for
\* undefined and for text that is no date.
NewDate(d) ==
    CASE d = "2019-04-01" -> Num(1)
      [] d = "2019-05-01" -> Num(2)
      [] OTHER -> NaN

\* The subtraction of two dates: NaN as soon as one operand is NaN.
Minus(x, y) == IF x.nan \/ y.nan THEN NaN ELSE Num(x.t - y.t)

\* ---------------------------------------------------------------- sort

\* The comparator of line 156.
comparefn(a, b) == Minus(NewDate(b.date), NewDate(a.date))

\* Array.prototype.sort calls the comparator through SortCompare, which
\* turns a NaN result into +0.
SortCompare(x, y) == LET v == comparefn(x, y) IN IF v.nan THEN 0 ELSE v.t

Reverse(s) == [i \in 1..Len(s) |-> s[Len(s) + 1 - i]]

RECURSIVE RunLength(_, _, _)
\* Length of the initial run of a (indexes from 1), idx the next candidate.
RunLength(a, descending, idx) ==
    IF idx > Len(a) THEN idx - 1
    ELSE LET order == SortCompare(a[idx], a[idx - 1])
         IN  IF (descending /\ order >= 0) \/ (~descending /\ order < 0)
             THEN idx - 1
             ELSE RunLength(a, descending, idx + 1)

RECURSIVE BinarySearch(_, _, _, _)
\* Where pivot belongs in a[left+1 .. right] (left, right as 0-based bounds).
BinarySearch(a, pivot, left, right) ==
    IF left >= right THEN left
    ELSE LET mid == left + ((right - left) \div 2)
         IN  IF SortCompare(pivot, a[mid + 1]) < 0
             THEN BinarySearch(a, pivot, left, mid)
             ELSE BinarySearch(a, pivot, mid + 1, right)

RECURSIVE BinaryInsertionSort(_, _)
\* a[1..start] is sorted; insert a[start+1], a[start+2], ... in turn.
BinaryInsertionSort(a, start) ==
    IF start >= Len(a) THEN a
    ELSE LET pivot == a[start + 1]
             left == BinarySearch(a, pivot, 0, start)
             moved == SubSeq(a, 1, left) \o <<pivot>> \o SubSeq(a, left + 1, start)
                      \o SubSeq(a, start + 2, Len(a))
         IN  BinaryInsertionSort(moved, start + 1)

\* Array.prototype.sort(comparefn) as the engine runs it on a short array:
\* the initial run is found (and reversed when strictly descending), the
\* rest is inserted by binary insertion.
sort(a) ==
    IF Len(a) < 2 THEN a
    ELSE LET descending == SortCompare(a[2], a[1]) < 0
             n == RunLength(a, descending, 3)
             made == IF descending
                     THEN Reverse(SubSeq(a, 1, n)) \o SubSeq(a, n + 1, Len(a))
                     ELSE a
         IN  BinaryInsertionSort(made, n)

\* ---------------------------------------------------------------- files

\* What a file holds: a rendered template (kind "post" or "index") with the
\* posts put in its context, or content this program did not write.
Page(kind, posts) == [kind |-> kind, posts |-> posts]

File(data) == [isFile |-> TRUE, data |-> data]
Directory == [isFile |-> FALSE, data |-> Page("directory", <<>>)]

EmptyDir == [n \in {} |-> Directory]

\* The directory holding the entries of S, a set of <<name, entry>> pairs.
DirOf(S) == [n \in {p[1] : p \in S} |-> (CHOOSE p \in S : p[1] = n)[2]]

Put(dir, name, entry) ==
    [n \in DOMAIN dir \cup {name} |-> IF n = name THEN entry ELSE dir[n]]

Remove(dir, name) == [n \in DOMAIN dir \ {name} |-> dir[n]]

IsDirectory(dir, name) == name \in DOMAIN dir /\ ~dir[name].isFile

RECURSIVE SetToSeq(_)
SetToSeq(S) ==
    IF S = {} THEN <<>>
    ELSE LET x == CHOOSE y \in S : TRUE IN <<x>> \o SetToSeq(S \ {x})

Range(s) == {s[i] : i \in 1..Len(s)}

\* fs.readdir(dirPath, { withFileTypes: true }) of the public directory.
readdir(dir) ==
    SetToSeq({[name |-> n, isFile |-> dir[n].isFile, data |-> dir[n].data] :
              n \in DOMAIN dir})

\* getFiles without the filter on the extension.
getFilesAnyExt(dirents, fileExt) ==
    LET files == SelectSeq(dirents, LAMBDA dirent : dirent.isFile)
    IN  [i \in 1..Len(files) |-> files[i].name]

\* getFiles on the dirents readdir returned: regular files whose lower-cased
\* name ends with fileExt (every regular file when fileExt is empty).
getFiles(dirents, fileExt) ==
    LET files == SelectSeq(dirents, LAMBDA dirent : dirent.isFile)
        matching == SelectSeq(files, LAMBDA dirent :
                        IF Len(fileExt) > 0
                        THEN endsWith(toLowerCase(dirent.name), fileExt)
                        ELSE TRUE)
    IN  [i \in 1..Len(matching) |-> matching[i].name]

\* ---------------------------------------------------------------- posts

\* A front-matter parser that takes a malformed block for an empty one.
frontMatterLenient(fileData) == FALSE

\* frontMatter(fileData) throws on a malformed metadata block.
frontMatterThrows(fileData) == ~fileData.wellFormed

\* parsePost: { ...attributes, body, slug }.
parsePost(fileName, fileData) ==
    [public |-> fileData.public,
     date |-> fileData.date,
     body |-> fileData.body,
     slug |-> basename(fileName, ExtMd)]

\* Boolean(post.public) for the values a flag takes here: true, false and
\* undefined (the flag is absent).
Boolean(v) == v = "true"

\* markdownToHTML, a deterministic function of the text.
markdownToHTML(text) == "<p>" \o text \o "</p>"

\* nunjucks.render of the post template with { ...post, body: html }.
renderPost(post) ==
    Page("post", <<[post EXCEPT !.body = markdownToHTML(post.body)]>>)

\* nunjucks.render of the index template with { posts }.
renderIndex(posts) == Page("index", posts)

\* The file createPostFile writes for a post.
postFileName(post) == pathFormat(post.slug, ExtHtml)

\* ---------------------------------------------------------------- inputs

SrcNames ==
    << <<"a", ".", "m", "d">>,
       <<"a", ".", "M", "D">>,
       <<"a", ".", "M", "D", ".", "m", "d">>,
       <<"index", ".", "m", "d">> >>

FileData(public, date, body) ==
    [wellFormed |-> TRUE, public |-> public, date |-> date, body |-> body]

\* The contents a Markdown file may have: public posts with a date, with none;
\* posts with public: false and with no public flag; a malformed block.
FileDatas ==
    { FileData("true", "2019-04-01", "first"),
      FileData("true", "2019-05-01", "second"),
      FileData("true", "absent", "undated"),
      FileData("false", "2019-04-01", "hidden"),
      FileData("absent", "soon", "draft"),
      [wellFormed |-> FALSE, public |-> "absent", date |-> "absent",
       body |-> "broken"] }

Dirent(name, isFile, data) == [name |-> name, isFile |-> isFile, data |-> data]

\* Entries of the posts directory that are no posts: a text file and a
\* sub-directory whose name ends in ".md".
OtherSrcEntries ==
    << Dirent(<<"readme", ".", "t", "x", "t">>, TRUE,
              FileData("true", "2019-05-01", "readme")),
       Dirent(<<"drafts", ".", "m", "d">>, FALSE,
              FileData("true", "2019-05-01", "drafts")) >>

\* The posts directories: the other entries, then at most MaxPosts Markdown
\* files with any of the contents. readdir yields the names in one fixed
\* order; as every assignment of contents to the names is drawn, the dates
\* and flags arrive in every order.
SrcDirs ==
    UNION { LET idx == SelectSeq([i \in 1..Len(SrcNames) |-> i], LAMBDA i : i \in S)
            IN  { OtherSrcEntries \o
                  [k \in 1..Len(idx) |-> Dirent(SrcNames[idx[k]], TRUE, c[idx[k]])] :
                  c \in [S -> FileDatas] } :
            S \in {T \in SUBSET (1..Len(SrcNames)) : Cardinality(T) <= MaxPosts} }

NotesTxt == <<"notes", ".", "t", "x", "t">>
SubDir == <<"sub">>
StaleHtml == <<"a", ".", "M", "D", ".", "h", "t", "m", "l">>
OldHtml == <<"OLD", ".", "H", "T", "M", "L">>
Other == File(Page("other", <<>>))

\* What the public directory may hold before a run: nothing (it does not
\* exist); a text file, a sub-directory and pages of an earlier run; a text
\* file, an old index and a directory where a page would go.
PublicDirs ==
    { [exists |-> FALSE, dir |-> EmptyDir],
      [exists |-> TRUE,
       dir |-> DirOf({<<NotesTxt, Other>>, <<SubDir, Directory>>,
                      <<StaleHtml, Other>>, <<OldHtml, Other>>})],
      [exists |-> TRUE,
       dir |-> DirOf({<<NotesTxt, Other>>, <<IndexHtml, Other>>,
                      <<StaleHtml, Directory>>})] }

Init ==
    /\ srcDir \in SrcDirs
    /\ src0 = srcDir
    /\ \E d \in PublicDirs : pubExists = d.exists /\ pub = d.dir /\ pub0 = d.dir
    /\ pc = "mkdir"
    /\ toUnlink = {}
    /\ fileNames = <<>>
    /\ unread = {}
    /\ jobs = <<>>
    /\ indexCalled = FALSE
    /\ indexArg = <<>>
    /\ cli = "pending"
    /\ exitCode = <<>>
    /\ written = {}
    /\ lateWrite = FALSE
    /\ run = 1
    /\ firstOut = EmptyDir
    /\ firstOk = FALSE

\* ---------------------------------------------------------------- build

\* build() rejects with error e: the catch handler of the entry point
\* prints it.
Reject(e) == pc' = "rejected" /\ cli' = e

\* The entry point has printed an error.
Errored == cli \notin {"pending", "logged"}

\* A combinator that resolves with the first createPostFile to resolve.
anyCreated(js) == \E j \in 1..Len(js) : js[j].st = "done"

\* Promise.all(postsToCreate) resolves once every createPostFile has.
allCreated(js) == \A j \in 1..Len(js) : js[j].st = "done"

\* No operation of the run is still in flight: the event loop is empty.
Idle ==
    /\ toUnlink = {}
    /\ unread = {}
    /\ \A j \in 1..Len(jobs) : jobs[j].st \in {"done", "failed"}

\* createIndexFile(createdPosts.sort(...)): the template is rendered at
\* once (it may throw) and the write of index.html is started.
createIndexFile(createdPosts) ==
    /\ indexCalled' = TRUE
    /\ indexArg' = sort(createdPosts)
    /\ \E rendered \in BOOLEAN :
          IF rendered THEN pc' = "index" /\ cli' = cli ELSE Reject("createIndexFile")

\* getPosts after Promise.all(filesToRead): every file is parsed; then build
\* starts createPostFile for each public post.
createPosts(names) ==
    LET dataOf(name) ==
            (CHOOSE i \in 1..Len(srcDir) : srcDir[i].name = name)
        fileData == [i \in 1..Len(names) |-> srcDir[dataOf(names[i])].data]
    IN  IF \E i \in 1..Len(names) : frontMatterThrows(fileData[i])
        THEN /\ Reject("frontMatter")
             /\ UNCHANGED <<jobs, indexCalled, indexArg>>
        ELSE LET posts == [i \in 1..Len(names) |-> parsePost(names[i], fileData[i])]
                 from == SelectSeq([i \in 1..Len(names) |-> i],
                                   LAMBDA i : Boolean(posts[i].public))
                 postsToCreate ==
                     [j \in 1..Len(from) |->
                         [post |-> posts[from[j]], fileName |-> names[from[j]],
                          st |-> "markdown", fileData |-> Page("none", <<>>)]]
             IN  /\ jobs' = postsToCreate
                 /\ IF postsToCreate = <<>>
                    THEN createIndexFile(<<>>)
                    ELSE /\ pc' = "creating"
                         /\ cli' = cli
                         /\ UNCHANGED <<indexCalled, indexArg>>

\* fs.mkdir(publicDirPath, { recursive: true }) settles.
Mkdir ==
    /\ pc = "mkdir"
    /\ \E ok \in BOOLEAN :
          IF ok
          THEN pubExists' = TRUE /\ pc' = "removeFiles" /\ cli' = cli
          ELSE pubExists' = pubExists /\ Reject("mkdir")
    /\ UNCHANGED <<srcDir, pub, toUnlink, fileNames, unread, jobs, indexCalled,
                   indexArg, exitCode, written, lateWrite, src0, pub0, run, firstOut,
                   firstOk>>

\* removeFiles: the readdir of the public directory settles and one unlink
\* per matching file is started.
RemoveFiles ==
    /\ pc = "removeFiles"
    /\ \E ok \in BOOLEAN :
          IF ok
          THEN LET names == getFiles(readdir(pub), ExtHtml)
               IN  /\ toUnlink' = Range(names)
                   /\ pc' = IF names = <<>> THEN "getPosts" ELSE "unlinking"
                   /\ cli' = cli
          ELSE toUnlink' = toUnlink /\ Reject("readdir")
    /\ UNCHANGED <<srcDir, pubExists, pub, fileNames, unread, jobs, indexCalled,
                   indexArg, exitCode, written, lateWrite, src0, pub0, run, firstOut,
                   firstOk>>

\* One fs.unlink settles; the last one to succeed lets build go on to
\* getPosts, a failing one rejects build while the others stay in flight.
Unlink(name) ==
    /\ name \in toUnlink
    /\ toUnlink' = toUnlink \ {name}
    /\ \E ok \in BOOLEAN :
          IF ok
          THEN /\ pub' = Remove(pub, name)
               /\ pc' = IF pc = "unlinking" /\ toUnlink' = {} THEN "getPosts" ELSE pc
               /\ cli' = cli
          ELSE /\ pub' = pub
               /\ IF pc = "unlinking" THEN Reject("unlink") ELSE UNCHANGED <<pc, cli>>
    /\ UNCHANGED <<srcDir, pubExists, fileNames, unread, jobs, indexCalled,
                   indexArg, exitCode, written, lateWrite, src0, pub0, run, firstOut,
                   firstOk>>

\* getPosts: the readdir of the posts directory settles and one readFile
\* per Markdown file is started.
GetPosts ==
    /\ pc = "getPosts"
    /\ \E ok \in BOOLEAN :
          IF ok
          THEN LET names == getFiles(srcDir, ExtMd)
               IN  /\ fileNames' = names
                   /\ unread' = 1..Len(names)
                   /\ IF names = <<>>
                      THEN createPosts(names)
                      ELSE /\ pc' = "reading"
                           /\ cli' = cli
                           /\ UNCHANGED <<jobs, indexCalled, indexArg>>
          ELSE /\ Reject("readdir")
               /\ UNCHANGED <<fileNames, unread, jobs, indexCalled, indexArg>>
    /\ UNCHANGED <<srcDir, pubExists, pub, toUnlink, exitCode, written,
                   lateWrite, src0, pub0, run, firstOut, firstOk>>

\* One fs.readFile settles; after the last one the files are parsed.
ReadFile(i) ==
    /\ i \in unread
    /\ unread' = unread \ {i}
    /\ \E ok \in BOOLEAN :
          IF ok
          THEN IF pc = "reading" /\ unread' = {}
               THEN createPosts(fileNames)
               ELSE UNCHANGED <<pc, cli, jobs, indexCalled, indexArg>>
          ELSE /\ IF pc = "reading" THEN Reject("readFile") ELSE UNCHANGED <<pc, cli>>
               /\ UNCHANGED <<jobs, indexCalled, indexArg>>
    /\ UNCHANGED <<srcDir, pubExists, pub, toUnlink, fileNames, exitCode,
                   written, lateWrite, src0, pub0, run, firstOut, firstOk>>

\* createPostFile(jobs[j].post): markdownToHTML settles; when it resolved
\* and nunjucks.render does not throw, the write of the page is started.
Markdown(j) ==
    /\ j \in 1..Len(jobs)
    /\ jobs[j].st = "markdown"
    /\ \E ok \in BOOLEAN :
          IF ok
          THEN /\ jobs' = [jobs EXCEPT ![j].st = "write",
                                       ![j].fileData = renderPost(jobs[j].post)]
               /\ UNCHANGED <<pc, cli>>
          ELSE /\ jobs' = [jobs EXCEPT ![j].st = "failed"]
               /\ IF pc = "creating"
                  THEN Reject("createPostFile")
                  ELSE UNCHANGED <<pc, cli>>
    /\ UNCHANGED <<srcDir, pubExists, pub, toUnlink, fileNames, unread,
                   indexCalled, indexArg, exitCode, written, lateWrite, src0,
                   pub0, run, firstOut, firstOk>>

\* createPostFile(jobs[j].post): fs.writeFile settles. It cannot succeed on
\* a path that is a directory. When the last createPostFile has resolved,
\* build sorts the created posts and calls createIndexFile.
WriteFile(j) ==
    /\ j \in 1..Len(jobs)
    /\ jobs[j].st = "write"
    /\ LET fileName == postFileName(jobs[j].post)
       IN  \E ok \in {b \in BOOLEAN : b => ~IsDirectory(pub, fileName)} :
              IF ok
              THEN /\ pub' = Put(pub, fileName, File(jobs[j].fileData))
                   /\ written' = written \cup {fileName}
                   /\ lateWrite' = (lateWrite \/ Errored)
                   /\ jobs' = [jobs EXCEPT ![j].st = "done"]
                   /\ IF pc = "creating" /\ allCreated(jobs')
                      THEN createIndexFile([k \in 1..Len(jobs) |-> jobs[k].post])
                      ELSE UNCHANGED <<pc, cli, indexCalled, indexArg>>
              ELSE /\ jobs' = [jobs EXCEPT ![j].st = "failed"]
                   /\ IF pc = "creating"
                      THEN Reject("createPostFile")
                      ELSE UNCHANGED <<pc, cli>>
                   /\ UNCHANGED <<pub, written, lateWrite, indexCalled, indexArg>>
    /\ UNCHANGED <<srcDir, pubExists, toUnlink, fileNames, unread, exitCode,
                   src0, pub0, run, firstOut, firstOk>>

\* createIndexFile: the write of index.html settles; build resolves and the
\* entry point prints the success count.
WriteIndex ==
    /\ pc = "index"
    /\ \E ok \in {b \in BOOLEAN : b => ~IsDirectory(pub, IndexHtml)} :
          IF ok
          THEN /\ pub' = Put(pub, IndexHtml, File(renderIndex(indexArg)))
               /\ written' = written \cup {IndexHtml}
               /\ pc' = "resolved"
               /\ cli' = "logged"
          ELSE /\ Reject("createIndexFile")
               /\ UNCHANGED <<pub, written>>
    /\ UNCHANGED <<srcDir, pubExists, toUnlink, fileNames, unread, jobs,
                   indexCalled, indexArg, exitCode, lateWrite, src0, pub0, run,
                   firstOut, firstOk>>

\* The process ends once build has settled and nothing is in flight. The
\* catch handler has handled a rejection, so the status is 0 either way.
Exit ==
    /\ pc \in {"resolved", "rejected"}
    /\ Idle
    /\ exitCode = <<>>
    /\ exitCode' = <<0>>
    /\ UNCHANGED <<srcDir, pubExists, pub, pc, toUnlink, fileNames, unread,
                   jobs, indexCalled, indexArg, cli, written, lateWrite, src0, pub0,
                   run, firstOut, firstOk>>

\* The program is run a second time on the same posts directory.
RunAgain ==
    /\ run = 1
    /\ exitCode # <<>>
    /\ run' = 2
    /\ firstOut' = pub
    /\ firstOk' = (pc = "resolved")
    /\ pub0' = pub
    /\ src0' = srcDir
    /\ pc' = "mkdir"
    /\ fileNames' = <<>>
    /\ jobs' = <<>>
    /\ indexCalled' = FALSE
    /\ indexArg' = <<>>
    /\ cli' = "pending"
    /\ exitCode' = <<>>
    /\ written' = {}
    /\ lateWrite' = FALSE
    /\ UNCHANGED <<srcDir, pubExists, pub, toUnlink, unread>>

Next ==
    \/ Mkdir
    \/ RemoveFiles
    \/ \E name \in toUnlink : Unlink(name)
    \/ GetPosts
    \/ \E i \in unread : ReadFile(i)
    \/ \E j \in 1..Len(jobs) : Markdown(j)
    \/ \E j \in 1..Len(jobs) : WriteFile(j)
    \/ WriteIndex
    \/ Exit

Spec == Init /\ [][Next]_vars

NextTwice == Next \/ RunAgain

SpecTwice == Init /\ [][NextTwice]_vars

\* ---------------------------------------------------------------- claims

\* The source files getPosts accepts: regular files whose lower-cased name
\* ends in ".md".
Accepted ==
    {i \in 1..Len(srcDir) :
        srcDir[i].isFile /\ endsWith(toLowerCase(srcDir[i].name), ExtMd)}

PublicSources == {i \in Accepted : srcDir[i].data.public = "true"}
HiddenSources == {i \in Accepted : srcDir[i].data.public # "true"}
Malformed == \E i \in Accepted : ~srcDir[i].data.wellFormed

\* The post pages of the public directory: every .html file but the index.
PostFiles ==
    {n \in DOMAIN pub :
        pub[n].isFile /\ endsWith(toLowerCase(n), ExtHtml) /\ n # IndexHtml}

\* A file name without its last three characters, the Markdown extension.
WithoutExtension(name) == SubSeq(name, 1, Len(name) - Len(ExtMd))

\* C1: after a successful build the number of post pages in the public
\* directory equals the number of public source posts.
C1_PostFileCount ==
    pc = "resolved" => Cardinality(PostFiles) = Cardinality(PublicSources)

\* C2: the slug of every public source file is its name without the
\* Markdown extension, in whatever case the extension is written, and the
\* page createPostFile writes for it is that name followed by ".html".
C2_SlugIsNameWithoutExtension ==
    \A j \in 1..Len(jobs) :
        /\ jobs[j].post.slug = WithoutExtension(jobs[j].fileName)
        /\ jobs[j].st = "done" =>
              pathFormat(WithoutExtension(jobs[j].fileName), ExtHtml) \in written

\* C3: after a successful build the public directory holds no file
\* <slug>.html for a source post that has no public flag or public: false.
C3_NoFileForHiddenPost ==
    pc = "resolved" =>
        \A i \in HiddenSources :
            pathFormat(basename(srcDir[i].name, ExtMd), ExtHtml) \notin DOMAIN pub

\* The posts of s, as a bag: post -> number of occurrences.
Occurrences(s, x) == Cardinality({k \in 1..Len(s) : s[k] = x})
IsPermutation(s, t) ==
    /\ Len(s) = Len(t)
    /\ \A k \in 1..Len(s) : Occurrences(s, s[k]) = Occurrences(t, s[k])

\* C4: the list passed to createIndexFile is a permutation of the created
\* posts ordered newest first. Read in the way most favourable to the
\* code: an entry whose date is no date is compared with nothing, and any
\* two entries that do have a date stand newest first.
C4_IndexNewestFirst ==
    indexCalled =>
        /\ IsPermutation(indexArg, [j \in 1..Len(jobs) |-> jobs[j].post])
        /\ \A k, l \in 1..Len(indexArg) :
              (k < l /\ ~NewDate(indexArg[k].date).nan
                     /\ ~NewDate(indexArg[l].date).nan)
              => NewDate(indexArg[k].date).t >= NewDate(indexArg[l].date).t

\* The run has written nothing, and has not come to create a page: no file
\* of the public directory is created or overwritten.
NothingWritten ==
    /\ pc \notin {"creating", "index", "resolved"}
    /\ written = {}
    /\ \A n \in DOMAIN pub : n \in DOMAIN pub0 /\ pub[n] = pub0[n]

\* C5: when a source file has a malformed metadata block, build never
\* resolves and the run writes nothing (stated by contraposition: a run that
\* has written a file, or has started to, had no malformed source file).
C5_MalformedWritesNothing == ~NothingWritten => ~Malformed

\* A run that read every file, met the malformed one beside a public post,
\* rejected on it and ended.
C5_Witness ==
    /\ Malformed
    /\ PublicSources # {}
    /\ cli = "frontMatter"
    /\ exitCode # <<>>

\* C6: the exit status tells the outcome: success when build resolved and
\* the count was printed, failure when build rejected and the error was.
C6_ExitStatusReflectsOutcome ==
    exitCode # <<>> =>
        /\ pc = "resolved" => (cli = "logged" /\ exitCode = <<0>>)
        /\ pc = "rejected" => (Errored /\ exitCode # <<0>>)

\* C7: a second successful run on the unchanged posts directory leaves the
\* public directory as the first successful run left it.
C7_SecondRunSameOutput ==
    (run = 2 /\ firstOk /\ pc = "resolved" /\ exitCode # <<>>) => pub = firstOut

\* What the reset step may delete.
Deletable(dir, n) == dir[n].isFile /\ endsWith(toLowerCase(n), ExtHtml)

\* C8: the build changes no entry of the public directory but regular files
\* whose lower-cased name ends in ".html", and nothing in the posts
\* directory; while an unlink of the reset is in flight nothing has been read
\* or written, and what the run has written is still there.
C8_ResetFrame ==
    /\ \A n \in DOMAIN pub0 :
          ~Deletable(pub0, n) => (n \in DOMAIN pub /\ pub[n] = pub0[n])
    /\ \A n \in DOMAIN pub \ DOMAIN pub0 : n \in written
    /\ srcDir = src0
    /\ toUnlink # {} =>
          /\ pc \in {"unlinking", "rejected"}
          /\ written = {}
          /\ fileNames = <<>>
          /\ jobs = <<>>
    /\ \A n \in written :
          n \in DOMAIN pub /\ pub[n].isFile /\ pub[n].data.kind \in {"post", "index"}

\* A successful run that deleted the old pages, kept the text file and the
\* sub-directory and wrote a page and the index.
C8_Witness ==
    /\ pc = "resolved"
    /\ OldHtml \in DOMAIN pub0 /\ OldHtml \notin DOMAIN pub
    /\ StaleHtml \in DOMAIN pub0
    /\ NotesTxt \in DOMAIN pub /\ SubDir \in DOMAIN pub
    /\ Cardinality(written) >= 2

\* C9: once build has rejected and the error has been printed, the run
\* writes no further post file.
C9_NoWriteAfterFailureReported == ~lateWrite

\* C10: createIndexFile is called only when every createPostFile has
\* written its file, never when one failed, and after a successful build
\* index.html holds the index listing of the created posts.
C10_IndexAfterAllPosts ==
    /\ indexCalled => \A j \in 1..Len(jobs) : jobs[j].st = "done"
    /\ (\E j \in 1..Len(jobs) : jobs[j].st = "failed") =>
          (~indexCalled /\ pc \notin {"index", "resolved"})
    /\ pc = "resolved" =>
          /\ IndexHtml \in DOMAIN pub
          /\ pub[IndexHtml] = File(renderIndex(indexArg))
          /\ IsPermutation(indexArg, [j \in 1..Len(jobs) |-> jobs[j].post])

\* A successful build of two public posts, one of them index.md, whose page
\* went to index.html before the index listing did.
C10_Witness ==
    /\ pc = "resolved"
    /\ Len(jobs) >= 2
    /\ \E j \in 1..Len(jobs) : postFileName(jobs[j].post) = IndexHtml

====
